---------------------------- MODULE Spec2Model ----------------------------
(***************************************************************************)
(* Model of the two call surfaces of the repository:                       *)
(*   jobspy_scraper                        (src/jobspy_demo.py)            *)
(*   JobSpyScraperTool.scrape_job_listings (src/jobspy_tool.py)            *)
(* Both assemble the keyword arguments of jobspy.scrape_jobs, call it once *)
(* inside try/except Exception, and reshape the returned DataFrame.        *)
(***************************************************************************)
EXTENDS Integers, Sequences, FiniteSets, TLC

(***************************************************************************)
(* Python values.  Every value is tagged with its type so that None, False *)
(* and "" stay distinct.                                                   *)
(***************************************************************************)
None == [t |-> "None"]
PyBool(b) == [t |-> "bool", v |-> b]
PyStr(s) == [t |-> "str", v |-> s]
PyInt(n) == [t |-> "int", v |-> n]
PyList(q) == [t |-> "list", v |-> q]
\* a member of jobspy's Site enum: a site identifier that is not text
PySite(n) == [t |-> "Site", v |-> n]

\* Python truth value (used by `if job_type:` and by `or`)
Truthy(x) ==
    CASE x.t = "None" -> FALSE
      [] x.t = "bool" -> x.v
      [] x.t = "str"  -> x.v # ""
      [] x.t = "int"  -> x.v # 0
      [] x.t = "list" -> Len(x.v) > 0
      [] OTHER        -> TRUE

\* Python `a or b`
PyOr(a, b) == IF Truthy(a) THEN a ELSE b

EmptyMap == <<>>
Range(q) == {q[i] : i \in DOMAIN q}
Restrict(f, S) == [k \in S |-> f[k]]

(***************************************************************************)
(* Exceptions.  `except Exception` catches the classes below Exception;    *)
(* KeyboardInterrupt, SystemExit and asyncio.CancelledError derive from    *)
(* BaseException only.                                                     *)
(***************************************************************************)
Exc(cls, args) == [t |-> "exc", cls |-> cls, args |-> args]
BaseOnlyClasses == {"KeyboardInterrupt", "SystemExit", "CancelledError"}

\* str(e): "" without arguments, the argument when there is one;
\* KeyError shows the repr of its key.
PyStrOfExc(e) ==
    IF Len(e.args) = 0 THEN ""
    ELSE IF e.cls = "KeyError" THEN "'" \o e.args[1] \o "'"
    ELSE e.args[1]

\* a handler narrowed to connection failures
IsCaughtMutant(e) == e.cls = "ConnectionError"
\* `except Exception`: every class except the BaseException-only ones
IsCaught(e) == e.cls \notin BaseOnlyClasses

(***************************************************************************)
(* Signature and defaults of the two functions.                            *)
(***************************************************************************)
ParamNames ==
    {"search_term", "location", "site_name", "country_indeed",
     "results_wanted", "hours_old", "distance", "offset", "job_type",
     "is_remote", "easy_apply", "google_search_term",
     "linkedin_fetch_description", "enforce_annual_salary", "verbose"}

Defaults ==
    [search_term |-> PyStr("Software Engineer"),
     location |-> PyStr("San Francisco, CA"),
     site_name |-> None,
     country_indeed |-> PyStr("USA"),
     results_wanted |-> PyInt(20),
     hours_old |-> PyInt(72),
     distance |-> PyInt(50),
     offset |-> PyInt(0),
     job_type |-> PyStr(""),
     is_remote |-> None,
     easy_apply |-> None,
     google_search_term |-> None,
     linkedin_fetch_description |-> PyBool(FALSE),
     enforce_annual_salary |-> PyBool(FALSE),
     verbose |-> PyInt(2)]

DefaultSites ==
    PyList(<<PyStr("indeed"), PyStr("linkedin"), PyStr("zip_recruiter"),
             PyStr("google")>>)

\* Python's binding of a keyword call f(**kw): a keyword that names a
\* parameter binds to it, the other parameters take their defaults ...
BindParams(kw) ==
    [p \in ParamNames |-> IF p \in DOMAIN kw THEN kw[p] ELSE Defaults[p]]

\* ... and **kwargs collects exactly the keywords that name no parameter.
BindKwargs(kw) == Restrict(kw, DOMAIN kw \ ParamNames)

(***************************************************************************)
(* Parameter assembly.                                                     *)
(***************************************************************************)
SiteOrDefault(site_name) == IF site_name = None THEN DefaultSites ELSE site_name

BaseParams(p) ==
    [site_name |-> SiteOrDefault(p.site_name),
     search_term |-> p.search_term,
     google_search_term |-> PyOr(p.google_search_term, p.search_term),
     location |-> p.location,
     country_indeed |-> p.country_indeed,
     results_wanted |-> p.results_wanted,
     hours_old |-> p.hours_old,
     distance |-> p.distance,
     offset |-> p.offset,
     verbose |-> p.verbose,
     enforce_annual_salary |-> p.enforce_annual_salary,
     linkedin_fetch_description |-> p.linkedin_fetch_description]

\* params[key] = value
SetKey(params, key, value) == (key :> value) @@ params

\* the three optional filters, with a truthiness test on the booleans
OptionalFiltersMutant(p, params) ==
    LET a == IF Truthy(p.job_type)
             THEN SetKey(params, "job_type", p.job_type) ELSE params
        b == IF Truthy(p.is_remote)
             THEN SetKey(a, "is_remote", p.is_remote) ELSE a
    IN  IF Truthy(p.easy_apply)
        THEN SetKey(b, "easy_apply", p.easy_apply) ELSE b

\* if job_type: ...; if is_remote is not None: ...; if easy_apply is not None: ...
OptionalFilters(p, params) ==
    LET a == IF Truthy(p.job_type)
             THEN SetKey(params, "job_type", p.job_type) ELSE params
        b == IF p.is_remote # None
             THEN SetKey(a, "is_remote", p.is_remote) ELSE a
    IN  IF p.easy_apply # None
        THEN SetKey(b, "easy_apply", p.easy_apply) ELSE b

\* params.update(kwargs) left out
DictUpdateMutant(params, kwargs) == params
\* params.update(kwargs): the keys of kwargs win
DictUpdate(params, kwargs) == kwargs @@ params

\* jobspy_scraper: the argument set handed to scrape_jobs
DemoParams(p, kwargs) == DictUpdate(OptionalFilters(p, BaseParams(p)), kwargs)

\* scrape_job_listings: the argument set handed to scrape_jobs
ToolParams(p) == OptionalFilters(p, BaseParams(p))

\* ', '.join(site_name) in the tool's log line raises TypeError unless
\* site_name is a string or a list of strings
JoinRaises(site_name) ==
    CASE site_name.t = "str"  -> FALSE
      [] site_name.t = "list" -> \E i \in DOMAIN site_name.v : site_name.v[i].t # "str"
      [] OTHER                -> TRUE

\* the TypeError str.join raises: it names the first item that is not a str
JoinError(site_name) ==
    IF site_name.t = "list"
    THEN LET i == CHOOSE i \in DOMAIN site_name.v :
                     /\ site_name.v[i].t # "str"
                     /\ \A j \in 1..(i - 1) : site_name.v[j].t = "str"
         IN  Exc("TypeError", <<"sequence item " \o ToString(i - 1)
                                \o ": expected str instance, "
                                \o site_name.v[i].t \o " found">>)
    ELSE Exc("TypeError", <<"can only join an iterable">>)

(***************************************************************************)
(* The tabular result (pandas DataFrame): named columns, positional rows.  *)
(* A missing cell (None / NaN) is None.                                    *)
(***************************************************************************)
DataFrame(columns, rows) == [t |-> "DataFrame", columns |-> columns, rows |-> rows]

\* DataFrame.empty with the row count alone
DfEmptyMutant(df) == Len(df.rows) = 0
\* DataFrame.empty: true when any axis has length 0
DfEmpty(df) == Len(df.rows) = 0 \/ Len(df.columns) = 0

\* len(jobs_df) as an off-by-one
DfLenMutant(df) == Len(df.rows) - 1
\* len(jobs_df): the number of rows
DfLen(df) == Len(df.rows)

\* "company" in jobs_df.columns
HasColumn(df, name) == name \in Range(df.columns)

ColumnIndexes(df, name) == {i \in DOMAIN df.columns : df.columns[i] = name}

LastIndex(df, name) ==
    CHOOSE i \in ColumnIndexes(df, name) : \A j \in ColumnIndexes(df, name) : j <= i

\* jobs_df.to_dict(orient="records"): one mapping per row, in row order,
\* from column name to the cell (the last column wins a duplicated name)
ToDictRecords(df) ==
    [r \in DOMAIN df.rows |->
        [c \in Range(df.columns) |-> df.rows[r][LastIndex(df, c)]]]

\* the cells of one column, in row order
Series(df, name) == [r \in DOMAIN df.rows |-> df.rows[r][LastIndex(df, name)]]

\* a distinct count that keeps the missing cells
NuniqueMutant(series) == Cardinality(Range(series))
\* Series.nunique(): distinct count, missing cells excluded (dropna=True)
Nunique(series) == Cardinality(Range(series) \ {None})

\* Series.value_counts(): occurrence count of each non-missing value
ValueCount(series, x) == Cardinality({r \in DOMAIN series : series[r] = x})

FirstRow(series, x) ==
    CHOOSE r \in DOMAIN series : series[r] = x /\ \A q \in DOMAIN series : series[q] = x => r <= q

\* position of x in value_counts(): descending count, then first appearance
Rank(series, x) ==
    Cardinality({y \in Range(series) \ {None} :
        \/ ValueCount(series, y) > ValueCount(series, x)
        \/ /\ ValueCount(series, y) = ValueCount(series, x)
           /\ FirstRow(series, y) < FirstRow(series, x)})

TopN == 10

\* value_counts().head(10).to_dict(): city -> count for the 10 most frequent
TopLocations(series) ==
    LET kept == {x \in Range(series) \ {None} : Rank(series, x) < TopN}
    IN  [city \in {x.v : x \in kept} |-> ValueCount(series, PyStr(city))]

(***************************************************************************)
(* Result shaping.  The body of the try block after scrape_jobs returned   *)
(* either returns a result mapping or raises.                              *)
(***************************************************************************)
Return(result) == [kind |-> "return", result |-> result]
Raise(exc) == [kind |-> "raise", exc |-> exc]

NoJobsMessage == "No jobs found. Try adjusting your filters."

EmptyResultMutant ==
    [success |-> TRUE, count |-> 0, data |-> <<>>, message |-> NoJobsMessage,
     metadata |-> [unique_companies |-> None, top_locations |-> EmptyMap]]
EmptyResult ==
    [success |-> TRUE, count |-> 0, data |-> <<>>, message |-> NoJobsMessage]

\* the handler's result with a count attached
ErrorResultMutant(e) == [success |-> FALSE, error |-> PyStrOfExc(e), count |-> 0]
\* {"success": False, "error": str(e)}
ErrorResult(e) == [success |-> FALSE, error |-> PyStrOfExc(e)]

\* int(jobs_df["company"].nunique()) if "company" in jobs_df.columns else None
\* raises TypeError when the name is duplicated (nunique() is then a Series)
UniqueCompanies(df) ==
    IF ~HasColumn(df, "company") THEN Return(None)
    ELSE IF Cardinality(ColumnIndexes(df, "company")) > 1
         THEN Raise(Exc("TypeError", <<"cannot convert the series to <class 'int'>">>))
         ELSE Return(PyInt(Nunique(Series(df, "company"))))

\* jobs_df["city"].value_counts().head(10).to_dict() if "city" in columns else {}
TopLocationsOf(df) ==
    IF HasColumn(df, "city") THEN TopLocations(Series(df, "city")) ELSE EmptyMap

\* lines 106-128 of jobspy_scraper, given the value scrape_jobs returned
DemoShape(value) ==
    IF value.t # "DataFrame"
    THEN Raise(Exc("AttributeError", <<"'NoneType' object has no attribute 'empty'">>))
    ELSE IF DfEmpty(value) THEN Return(EmptyResult)
    ELSE LET uc == UniqueCompanies(value)
         IN  IF uc.kind = "raise" THEN uc
             ELSE Return([success |-> TRUE,
                          count |-> DfLen(value),
                          data |-> ToDictRecords(value),
                          metadata |-> [unique_companies |-> uc.result,
                                        top_locations |-> TopLocationsOf(value)]])

\* lines 78-102 of scrape_job_listings, given the value scrape_jobs returned
ToolShape(value) ==
    IF value.t # "DataFrame"
    THEN Raise(Exc("AttributeError", <<"'NoneType' object has no attribute 'empty'">>))
    ELSE IF DfEmpty(value) THEN Return(EmptyResult)
    ELSE LET uc == UniqueCompanies(value)
         IN  IF uc.kind = "raise" THEN uc
             ELSE Return([success |-> TRUE,
                          count |-> DfLen(value),
                          data |-> ToDictRecords(value),
                          metadata |-> [unique_companies |-> uc.result,
                                        top_locations |-> TopLocationsOf(value)]])

\* what scrape_jobs did, seen from the try block: the shaped return value,
\* or the failure it raised
DemoBody(ext) == IF ext.kind = "raise" THEN Raise(ext.exc) ELSE DemoShape(ext.value)
ToolBody(ext) == IF ext.kind = "raise" THEN Raise(ext.exc) ELSE ToolShape(ext.value)

\* except Exception as e: return {...}; anything else propagates
DemoExcept(outcome) ==
    IF outcome.kind = "raise" /\ IsCaught(outcome.exc)
    THEN Return(ErrorResult(outcome.exc)) ELSE outcome

ToolExcept(outcome) ==
    IF outcome.kind = "raise" /\ IsCaught(outcome.exc)
    THEN Return(ErrorResult(outcome.exc)) ELSE outcome

(***************************************************************************)
(* Bounds and input sets.                                                  *)
(***************************************************************************)
MaxRows == 5
MaxOtherSteps == 1

Surfaces == {"demo", "tool"}

A == PyStr("A")
B == PyStr("B")
C == PyStr("C")
D == PyStr("D")
X == PyStr("X")
Y == PyStr("Y")

TriState == {None, PyBool(TRUE), PyBool(FALSE)}

\* named arguments a caller may give
FieldChoices ==
    [search_term : {PyStr("Data Scientist"), PyStr("")},
     google_search_term : {None, PyStr(""), PyStr("ds jobs")},
     site_name : {None, PyList(<<PyStr("indeed")>>), PyList(<<PySite("INDEED")>>)},
     job_type : {PyStr(""), PyStr("fulltime")},
     is_remote : TriState,
     easy_apply : TriState,
     location : {PyStr("Remote")},
     results_wanted : {PyInt(5)}]

\* extra keyword overrides a caller may give to jobspy_scraper
OverrideChoices ==
    {EmptyMap,
     [proxies |-> PyStr("p")],
     [google_search_term |-> PyStr("")],
     [location |-> PyStr("Berlin"), job_type |-> PyStr(""), proxies |-> PyStr("p")]}

ScenarioFields ==
    [search_term |-> PyStr("Data Scientist"),
     location |-> PyStr("Remote"),
     site_name |-> PyList(<<PyStr("indeed")>>),
     results_wanted |-> PyInt(5)]

\* column layouts of the external result, each with the rows it may hold
Layouts ==
    {[columns |-> <<>>, pool |-> {<<>>}],
     [columns |-> <<"title">>, pool |-> {<<PyStr("t")>>}],
     [columns |-> <<"company">>, pool |-> {<<A>>, <<B>>, <<C>>, <<D>>}],
     [columns |-> <<"company", "city">>, pool |-> {<<A, X>>, <<B, Y>>, <<None, None>>}],
     [columns |-> <<"company", "company">>, pool |-> {<<A, B>>}]}

Tables ==
    UNION {{DataFrame(l.columns, rows) :
                rows \in UNION {[1..n -> l.pool] : n \in 0..MaxRows}} : l \in Layouts}

Failures ==
    {Exc("ConnectionError", <<"boom">>), Exc("Exception", <<>>),
     Exc("KeyError", <<"city">>), Exc("KeyboardInterrupt", <<>>),
     Exc("CancelledError", <<>>)}

ExtRaise(e) == [kind |-> "raise", exc |-> e, value |-> None]
ExtReturn(v) == [kind |-> "return", exc |-> None, value |-> v]

\* every behaviour of scrape_jobs: raise, return a non-table, return a table
Externals ==
    {ExtRaise(e) : e \in Failures} \cup {ExtReturn(None)} \cup {ExtReturn(df) : df \in Tables}

ExternalsSmall ==
    {ExtRaise(Exc("ConnectionError", <<"boom">>)),
     ExtReturn(DataFrame(<<"company", "city">>, <<<<A, X>>>>))}

(***************************************************************************)
(* State.                                                                  *)
(***************************************************************************)
VARIABLES
    fields,      \* the caller's named arguments
    overrides,   \* the caller's extra keyword overrides (jobspy_scraper only)
    external,    \* how scrape_jobs behaves when it is called
    pc,          \* position of each surface's call
    params,      \* the local dict `params` of each call
    forwarded,   \* the argument sets each call passed to scrape_jobs, in order
    result,      \* the mapping each call returned
    raised,      \* the failure each call let through to its caller
    running,     \* the task that holds the event loop: "tool" or "none"
    otherSteps   \* steps taken by another task of the same event loop

vars == <<fields, overrides, external, pc, params, forwarded, result, raised,
          running, otherSteps>>

\* the keyword call each surface receives
DemoCall == overrides @@ fields
ToolCall == fields

InitCall ==
    /\ pc = [s \in Surfaces |-> "start"]
    /\ params = [s \in Surfaces |-> EmptyMap]
    /\ forwarded = [s \in Surfaces |-> <<>>]
    /\ result = [s \in Surfaces |-> EmptyMap]
    /\ raised = [s \in Surfaces |-> None]
    /\ running = "none"
    /\ otherSteps = 0

\* parameter sweep against two behaviours of scrape_jobs
InitParams ==
    /\ \E full \in FieldChoices, ov \in OverrideChoices :
          /\ fields = Restrict(full, DOMAIN full \ DOMAIN ov)
          /\ overrides = ov
    /\ external \in ExternalsSmall
    /\ InitCall

\* sweep of scrape_jobs' behaviours against the scenario's parameters
InitShape ==
    /\ fields = ScenarioFields
    /\ overrides = EmptyMap
    /\ external \in Externals
    /\ InitCall

Init == InitParams \/ InitShape

(***************************************************************************)
(* jobspy_scraper (synchronous).                                           *)
(***************************************************************************)
DemoAssemble ==
    /\ pc["demo"] = "start"
    /\ params' = [params EXCEPT !["demo"] =
                     DemoParams(BindParams(DemoCall), BindKwargs(DemoCall))]
    /\ pc' = [pc EXCEPT !["demo"] = "assembled"]
    /\ UNCHANGED <<fields, overrides, external, forwarded, result, raised,
                   running, otherSteps>>

DemoInvoke ==
    /\ pc["demo"] = "assembled"
    /\ forwarded' = [forwarded EXCEPT !["demo"] = Append(@, params["demo"])]
    /\ pc' = [pc EXCEPT !["demo"] = "scraping"]
    /\ UNCHANGED <<fields, overrides, external, params, result, raised,
                   running, otherSteps>>

DemoComplete ==
    /\ pc["demo"] = "scraping"
    /\ LET o == DemoExcept(DemoBody(external))
       IN  IF o.kind = "return"
           THEN /\ result' = [result EXCEPT !["demo"] = o.result]
                /\ pc' = [pc EXCEPT !["demo"] = "returned"]
                /\ UNCHANGED raised
           ELSE /\ raised' = [raised EXCEPT !["demo"] = o.exc]
                /\ pc' = [pc EXCEPT !["demo"] = "raised"]
                /\ UNCHANGED result
    /\ UNCHANGED <<fields, overrides, external, params, forwarded,
                   running, otherSteps>>

(***************************************************************************)
(* JobSpyScraperTool.scrape_job_listings (a coroutine on an event loop).   *)
(***************************************************************************)
\* line 76 is `jobs_df = scrape_jobs(**params)`: a plain call, not awaited
ScrapeIsAwaited == FALSE

\* the event loop starts the coroutine; it runs up to the scrape call
ToolAssemble ==
    /\ pc["tool"] = "start"
    /\ running = "none"
    /\ LET p == BindParams(ToolCall)
           site == SiteOrDefault(p.site_name)
       IN  IF JoinRaises(site)
           THEN LET o == ToolExcept(Raise(JoinError(site)))
                IN  /\ IF o.kind = "return"
                       THEN /\ result' = [result EXCEPT !["tool"] = o.result]
                            /\ pc' = [pc EXCEPT !["tool"] = "returned"]
                            /\ UNCHANGED raised
                       ELSE /\ raised' = [raised EXCEPT !["tool"] = o.exc]
                            /\ pc' = [pc EXCEPT !["tool"] = "raised"]
                            /\ UNCHANGED result
                    /\ UNCHANGED <<params, running>>
           ELSE /\ params' = [params EXCEPT !["tool"] = ToolParams(p)]
                /\ pc' = [pc EXCEPT !["tool"] = "assembled"]
                /\ running' = "tool"
                /\ UNCHANGED <<result, raised>>
    /\ UNCHANGED <<fields, overrides, external, forwarded, otherSteps>>

ToolInvoke ==
    /\ pc["tool"] = "assembled"
    /\ running = "tool"
    /\ forwarded' = [forwarded EXCEPT !["tool"] = Append(@, params["tool"])]
    /\ pc' = [pc EXCEPT !["tool"] = "scraping"]
    /\ running' = IF ScrapeIsAwaited THEN "none" ELSE "tool"
    /\ UNCHANGED <<fields, overrides, external, params, result, raised, otherSteps>>

ToolComplete ==
    /\ pc["tool"] = "scraping"
    /\ running = IF ScrapeIsAwaited THEN "none" ELSE "tool"
    /\ LET o == ToolExcept(ToolBody(external))
       IN  IF o.kind = "return"
           THEN /\ result' = [result EXCEPT !["tool"] = o.result]
                /\ pc' = [pc EXCEPT !["tool"] = "returned"]
                /\ UNCHANGED raised
           ELSE /\ raised' = [raised EXCEPT !["tool"] = o.exc]
                /\ pc' = [pc EXCEPT !["tool"] = "raised"]
                /\ UNCHANGED result
    /\ running' = "none"
    /\ UNCHANGED <<fields, overrides, external, params, forwarded, otherSteps>>

\* another task of the same event loop runs only while no task holds the loop
OtherTaskStep ==
    /\ running = "none"
    /\ otherSteps < MaxOtherSteps
    /\ otherSteps' = otherSteps + 1
    /\ UNCHANGED <<fields, overrides, external, pc, params, forwarded, result,
                   raised, running>>

Next ==
    \/ DemoAssemble
    \/ DemoInvoke
    \/ DemoComplete
    \/ ToolAssemble
    \/ ToolInvoke
    \/ ToolComplete
    \/ OtherTaskStep

Spec == Init /\ [][Next]_vars

(***************************************************************************)
(* Properties.                                                             *)
(***************************************************************************)
Finished(s) == pc[s] \in {"returned", "raised"}
ScrapeDone(s) == Len(forwarded[s]) = 1 /\ Finished(s)
IsFailureResult(s, e) ==
    /\ pc[s] = "returned"
    /\ DOMAIN result[s] = {"success", "error"}
    /\ result[s].success = FALSE
    /\ result[s].error = PyStrOfExc(e)

\* C1 (as stated): whenever scrape_jobs raises, whatever the failure, the call
\* returns {success: false, error: str(failure)} with no count, data,
\* metadata or message.
C1_AnyFailureGivesErrorResult ==
    \A s \in Surfaces :
        (ScrapeDone(s) /\ external.kind = "raise") => IsFailureResult(s, external.exc)

\* C1 (amended): whenever scrape_jobs raises a failure of a class derived from
\* Exception, the call returns {success: false, error: str(failure)} and
\* nothing else; KeyboardInterrupt, SystemExit and CancelledError pass through.
C1_ExceptionGivesErrorResult ==
    \A s \in Surfaces :
        (ScrapeDone(s) /\ external.kind = "raise") =>
            IF external.exc.cls \in {"KeyboardInterrupt", "SystemExit", "CancelledError"}
            THEN pc[s] = "raised" /\ raised[s] = external.exc
            ELSE IsFailureResult(s, external.exc)

C1_Witness ==
    /\ external = ExtRaise(Exc("KeyError", <<"city">>))
    /\ \A s \in Surfaces : ScrapeDone(s) /\ result[s].error = "'city'"

\* C2 (as stated): every call ends by returning a mapping with a boolean
\* success field; no failure reaches the caller.
C2_NeverPropagates ==
    \A s \in Surfaces :
        Finished(s) =>
            /\ pc[s] = "returned"
            /\ "success" \in DOMAIN result[s]
            /\ result[s].success \in BOOLEAN

\* C2 (amended): every call in which nothing raises a BaseException-only
\* failure (KeyboardInterrupt, SystemExit, CancelledError) ends by returning
\* a mapping with a boolean success field; this covers failures raised while
\* assembling parameters or reshaping the result.
C2_ExceptionNeverPropagates ==
    \A s \in Surfaces :
        (Finished(s) /\ ~(external.kind = "raise" /\ external.exc.cls \in BaseOnlyClasses)) =>
            /\ pc[s] = "returned"
            /\ "success" \in DOMAIN result[s]
            /\ result[s].success \in BOOLEAN

C2_Witness ==
    /\ external = ExtReturn(None)
    /\ \A s \in Surfaces : pc[s] = "returned" /\ result[s].success = FALSE

\* C3: in the argument set forwarded to scrape_jobs, is_remote and easy_apply
\* are present exactly when the caller gave a value other than None (False is
\* forwarded as False), job_type exactly when it is non-empty, each with the
\* caller's value.
C3_OptionalFiltersForwarded ==
    \A s \in Surfaces :
        Len(forwarded[s]) >= 1 =>
            LET fw == forwarded[s][1]
                call == IF s = "demo" THEN DemoCall ELSE ToolCall
                given(k, unset) == k \in DOMAIN call /\ call[k] # unset
            IN  /\ \A k \in {"is_remote", "easy_apply"} :
                      /\ k \in DOMAIN fw <=> given(k, None)
                      /\ k \in DOMAIN fw => fw[k] = call[k]
                /\ "job_type" \in DOMAIN fw <=> given("job_type", PyStr(""))
                /\ "job_type" \in DOMAIN fw => fw["job_type"] = call["job_type"]

C3_Witness ==
    \A s \in Surfaces :
        /\ Len(forwarded[s]) = 1
        /\ "is_remote" \in DOMAIN fields /\ fields["is_remote"] = PyBool(FALSE)
        /\ "easy_apply" \in DOMAIN fields /\ fields["easy_apply"] = None
        /\ "job_type" \in DOMAIN fields /\ fields["job_type"] = PyStr("")
        /\ forwarded[s][1]["is_remote"] = PyBool(FALSE)
        /\ "easy_apply" \notin DOMAIN forwarded[s][1]
        /\ "job_type" \notin DOMAIN forwarded[s][1]

ReturnedTable(s) ==
    /\ ScrapeDone(s)
    /\ external.kind = "return"
    /\ external.value.t = "DataFrame"

RowsInOrder(s) ==
    LET df == external.value
    IN  /\ pc[s] = "returned"
        /\ result[s].success = TRUE
        /\ result[s].count = Len(df.rows)
        /\ Len(result[s].data) = Len(df.rows)
        /\ \A r \in DOMAIN df.rows :
              /\ DOMAIN result[s].data[r] = Range(df.columns)
              /\ \A i \in DOMAIN df.columns :
                    (\A j \in DOMAIN df.columns : df.columns[j] = df.columns[i] => j <= i)
                        => result[s].data[r][df.columns[i]] = df.rows[r][i]

C5_ZeroRowsGiveEmptyResult ==
    \A s \in Surfaces :
        (ReturnedTable(s) /\ Len(external.value.rows) = 0) =>
            /\ pc[s] = "returned"
            /\ DOMAIN result[s] = {"success", "count", "data", "message"}
            /\ result[s].success = TRUE
            /\ result[s].count = 0
            /\ result[s].data = <<>>
            /\ result[s].message = "No jobs found. Try adjusting your filters."

C5_Witness ==
    /\ external = ExtReturn(DataFrame(<<"company", "city">>, <<>>))
    /\ \A s \in Surfaces : ScrapeDone(s) /\ result[s].count = 0

\* C6 (as stated): every key of the caller's extra overrides reaches
\* scrape_jobs with the override's value, replacing a computed value of the
\* same key; computed keys that are not overridden are forwarded unchanged.
C6_OverridesWin ==
    Len(forwarded["demo"]) >= 1 =>
        LET fw == forwarded["demo"][1]
        IN  /\ \A k \in DOMAIN overrides : k \in DOMAIN fw /\ fw[k] = overrides[k]
            /\ \A k \in DOMAIN fields \cap {"search_term", "location", "results_wanted"} :
                  fw[k] = fields[k]

\* C6 (amended): every override whose key is not one of the function's
\* parameter names reaches scrape_jobs with the override's value, and computed
\* keys that are not overridden are forwarded unchanged.  An override whose
\* key is a parameter name is bound to that parameter and computed like it:
\* location is forwarded as given, a falsy google_search_term is replaced by
\* search_term, a falsy job_type is left out.
C6_OverridesMergedAfterBinding ==
    Len(forwarded["demo"]) >= 1 =>
        LET fw == forwarded["demo"][1]
            ov == overrides
        IN  /\ \A k \in DOMAIN ov \ ParamNames : k \in DOMAIN fw /\ fw[k] = ov[k]
            /\ DOMAIN fw \ ParamNames = DOMAIN ov \ ParamNames
            /\ \A k \in DOMAIN fields \cap {"search_term", "location", "results_wanted"} :
                  fw[k] = fields[k]
            /\ "location" \in DOMAIN ov => fw["location"] = ov["location"]
            /\ "google_search_term" \in DOMAIN ov =>
                  fw["google_search_term"] =
                      IF ov["google_search_term"] \in {None, PyStr("")}
                      THEN fw["search_term"] ELSE ov["google_search_term"]
            /\ "job_type" \in DOMAIN ov =>
                  IF ov["job_type"] \in {None, PyStr("")}
                  THEN "job_type" \notin DOMAIN fw
                  ELSE fw["job_type"] = ov["job_type"]

C6_Witness ==
    /\ Len(forwarded["demo"]) = 1
    /\ DOMAIN overrides = {"location", "job_type", "proxies"}
    /\ forwarded["demo"][1]["proxies"] = PyStr("p")
    /\ forwarded["demo"][1]["location"] = PyStr("Berlin")
    /\ forwarded["demo"][1]["search_term"] = PyStr("Data Scientist")

Scenario ==
    /\ fields = ScenarioFields
    /\ overrides = EmptyMap
    /\ external = ExtReturn(DataFrame(<<"company">>, <<<<A>>, <<A>>, <<B>>, <<C>>, <<D>>>>))

UniqueCompaniesIs(s, n) ==
    /\ pc[s] = "returned"
    /\ "metadata" \in DOMAIN result[s]
    /\ result[s].metadata.unique_companies = n

\* the populated branch was taken
Populated(s) == ReturnedTable(s) /\ pc[s] = "returned" /\ "metadata" \in DOMAIN result[s]

\* C7 (as stated): 5 rows with companies A, A, B, C, D and no city column
\* give count=5, unique_companies=3, top_locations={}; in general
\* unique_companies is the distinct count of the company column's values, and
\* null without that column.
C7_ScenarioThreeCompanies ==
    \A s \in Surfaces :
        /\ (Scenario /\ ScrapeDone(s)) =>
              /\ UniqueCompaniesIs(s, PyInt(3))
              /\ result[s].count = 5
              /\ result[s].metadata.top_locations = EmptyMap
        /\ Populated(s) =>
              LET df == external.value
              IN  IF "company" \in Range(df.columns)
                  THEN \E i \in DOMAIN df.columns :
                          /\ df.columns[i] = "company"
                          /\ UniqueCompaniesIs(s,
                                PyInt(Cardinality({df.rows[r][i] : r \in DOMAIN df.rows})))
                  ELSE UniqueCompaniesIs(s, None)

\* C7 (amended): 5 rows with companies A, A, B, C, D and no city column give
\* count=5, unique_companies=4, top_locations={}; in general unique_companies
\* is the distinct count of the non-missing values of the company column, and
\* null without that column.
C7_ScenarioFourCompanies ==
    \A s \in Surfaces :
        /\ (Scenario /\ ScrapeDone(s)) =>
              /\ UniqueCompaniesIs(s, PyInt(4))
              /\ result[s].count = 5
              /\ result[s].metadata.top_locations = EmptyMap
        /\ Populated(s) =>
              LET df == external.value
              IN  IF "company" \in Range(df.columns)
                  THEN \E i \in DOMAIN df.columns :
                          /\ df.columns[i] = "company"
                          /\ UniqueCompaniesIs(s,
                                PyInt(Cardinality({df.rows[r][i] : r \in DOMAIN df.rows} \ {None})))
                  ELSE UniqueCompaniesIs(s, None)

C7_Witness ==
    /\ Scenario
    /\ \A s \in Surfaces : ScrapeDone(s) /\ UniqueCompaniesIs(s, PyInt(4))

\* C8: with no extra overrides, for every parameter set and every behaviour
\* of scrape_jobs, scrape_job_listings forwards the same argument set as
\* jobspy_scraper and returns the identical result.
C8_SurfacesEquivalent ==
    (overrides = EmptyMap /\ Finished("demo") /\ Finished("tool")) =>
        /\ forwarded["tool"] = forwarded["demo"]
        /\ pc["tool"] = pc["demo"]
        /\ result["tool"] = result["demo"]
        /\ raised["tool"] = raised["demo"]

\* C9: the coroutine yields the event loop at the scrape call: while the
\* scrape is in progress the task does not hold the loop, so other tasks can
\* run.
C9_YieldsAtScrape == pc["tool"] = "scraping" => running # "tool"

\* C10: within one call scrape_jobs is invoked at most once, and no result is
\* returned without it having been invoked exactly once.
C10_LinearSequence ==
    \A s \in Surfaces :
        /\ Len(forwarded[s]) <= 1
        /\ pc[s] = "returned" => Len(forwarded[s]) = 1

=============================================================================
